---- MODULE Spec2Model ----
(***************************************************************************)
(* Model of app.py: the multi-file CSV / Excel preview, append and         *)
(* download script.                                                        *)
(*                                                                         *)
(* Text is a sequence of one-character strings, so that lower(),           *)
(* endswith(), strip(), replace() and slicing are computed character by    *)
(* character.  A cell or a column label is a tagged Python value: an int,  *)
(* a str, or the missing value NaN.  A DataFrame is a record               *)
(* [columns, rows]: the column labels in order and the rows in order,      *)
(* each row a sequence of cells aligned with the columns.                  *)
(*                                                                         *)
(* Two specifications: Spec is the script as Streamlit runs it (every user  *)
(* action restarts it from the top, also in the middle of a run); HdrSpec  *)
(* applies fix_headers_if_needed to every DataFrame of a bounded family.   *)
(* The datasets uploaded in Spec have distinct labels after header repair. *)
(***************************************************************************)
EXTENDS Integers, Sequences, FiniteSets, TLC

VARIABLES
    uploaded_files,  \* st.file_uploader's value: the files uploaded, in order
    text_value,      \* the value of the "Enter file name" text_input widget
    pc,              \* position of the script run: "loop" or "done"
    idx,             \* number of files the for loop has gone through
    raw_dfs,         \* dict raw_dfs, as its items in insertion order
    combined_list,   \* list combined_list
    attempts,        \* reader calls made, one sequence per file gone through
    errors,          \* st.error messages shown by this run (file names)
    combined_df,     \* combined_df, once computed by this run
    summary_df,      \* summary_df, once computed by this run
    download,        \* the st.download_button of this run, or NoDownload
    info,            \* whether the "Upload one or more ..." notice is shown
    previews,        \* the per-file expanders shown by this run
    combined_preview,\* the combined preview and caption shown by this run
    removed,         \* history: the last change of the uploaded files was a removal
    h_pc,            \* HdrSpec: "input", "fixed", "again"
    h_in,            \* HdrSpec: the DataFrame given to fix_headers_if_needed
    h_out,           \* HdrSpec: the result of fix_headers_if_needed(h_in)
    h_again          \* HdrSpec: the result of fix_headers_if_needed(h_out)

vars == <<uploaded_files, text_value, pc, idx, raw_dfs, combined_list, attempts,
          errors, combined_df, summary_df, download, info, previews,
          combined_preview, removed, h_pc, h_in, h_out, h_again>>

appVars == <<uploaded_files, text_value, pc, idx, raw_dfs, combined_list, attempts,
             errors, combined_df, summary_df, download, info, previews,
             combined_preview, removed>>

hdrVars == <<h_pc, h_in, h_out, h_again>>

(***************************************************************************)
(* Bounds                                                                  *)
(***************************************************************************)
MaxFiles == 3   \* files uploaded at once
MaxRows == 3    \* rows of a DataFrame given to fix_headers_if_needed in HdrSpec

(***************************************************************************)
(* Python values and text                                                  *)
(***************************************************************************)
NaN == [t |-> "na", n |-> 0, s |-> <<>>]
IntV(n) == [t |-> "int", n |-> n, s |-> <<>>]
StrV(s) == [t |-> "str", n |-> 0, s |-> s]

\* isinstance(col, int)
IsInt(v) == v.t = "int"

\* pandas notna()
NotNa(v) == v.t # "na"

Digit(d) == CASE d = 0 -> "0" [] d = 1 -> "1" [] d = 2 -> "2" [] d = 3 -> "3"
              [] d = 4 -> "4" [] d = 5 -> "5" [] d = 6 -> "6" [] d = 7 -> "7"
              [] d = 8 -> "8" [] d = 9 -> "9"

RECURSIVE NatStr(_)
NatStr(n) == IF n < 10 THEN <<Digit(n)>> ELSE NatStr(n \div 10) \o <<Digit(n % 10)>>

\* str(v), as Index.astype(str) applies it to each label
StrOf(v) == CASE v.t = "str" -> v.s
              [] v.t = "int" -> IF v.n < 0 THEN <<"-">> \o NatStr(0 - v.n) ELSE NatStr(v.n)
              [] v.t = "na" -> <<"n", "a", "n">>

IsSpace(c) == c \in {" ", "\n", "\t", "\r"}

RECURSIVE LStrip(_)
LStrip(s) == IF s # <<>> /\ IsSpace(Head(s)) THEN LStrip(Tail(s)) ELSE s

RECURSIVE RStrip(_)
RStrip(s) == IF s # <<>> /\ IsSpace(s[Len(s)]) THEN RStrip(SubSeq(s, 1, Len(s) - 1)) ELSE s

\* str.strip()
Strip(s) == RStrip(LStrip(s))

\* str.replace("\n", " ")
ReplaceNewline(s) == [i \in DOMAIN s |-> IF s[i] = "\n" THEN " " ELSE s[i]]

LowerChar(c) == CASE c = "A" -> "a" [] c = "B" -> "b" [] c = "C" -> "c" [] c = "L" -> "l"
                  [] c = "S" -> "s" [] c = "T" -> "t" [] c = "U" -> "u" [] c = "V" -> "v"
                  [] c = "X" -> "x" [] OTHER -> c

\* str.lower()
Lower(s) == [i \in DOMAIN s |-> LowerChar(s[i])]

\* str.endswith(suffix)
EndsWith(s, suffix) ==
    /\ Len(s) >= Len(suffix)
    /\ SubSeq(s, Len(s) - Len(suffix) + 1, Len(s)) = suffix

(***************************************************************************)
(* fix_headers_if_needed                                                   *)
(***************************************************************************)
NoHeaderRow == -1

\* df.iloc[i], i counted from 0
Iloc(df, i) == df.rows[i + 1]

\* df.iloc[i].notna().sum()
NotnaSum(row) == Cardinality({j \in DOMAIN row : NotNa(row[j])})

AllIntColumns(df) == \A j \in DOMAIN df.columns : IsInt(df.columns[j])

\* the for loop over range(len(df)), from row i on
RECURSIVE HeaderRowFrom(_, _)
HeaderRowFrom(df, i) ==
    IF i >= Len(df.rows) THEN NoHeaderRow
    ELSE IF NotnaSum(Iloc(df, i)) > 0 THEN i
    ELSE HeaderRowFrom(df, i + 1)

\* faulty variant: header_row_idx starts as 0 instead of None
HeaderRowIdxDefaultsToFirst(df) ==
    IF HeaderRowFrom(df, 0) = NoHeaderRow /\ df.rows # <<>> THEN 0 ELSE HeaderRowFrom(df, 0)

HeaderRowIdx(df) == HeaderRowFrom(df, 0)

\* faulty variant: df.iloc[k:] keeps the promoted row among the data
PromoteRowKeepsHeader(df, k) ==
    [columns |-> Iloc(df, k), rows |-> SubSeq(df.rows, k + 1, Len(df.rows))]

\* df.columns = df.iloc[k]; df = df.iloc[k + 1:].reset_index(drop=True)
PromoteRow(df, k) ==
    [columns |-> Iloc(df, k), rows |-> SubSeq(df.rows, k + 2, Len(df.rows))]

PromoteHeader(df) ==
    IF AllIntColumns(df)
    THEN IF HeaderRowIdx(df) # NoHeaderRow THEN PromoteRow(df, HeaderRowIdx(df)) ELSE df
    ELSE df

\* faulty variant: the .str.strip() step is left out
CleanLabelWithoutStrip(v) == StrV(ReplaceNewline(StrOf(v)))

CleanLabel(v) == StrV(ReplaceNewline(Strip(StrOf(v))))

CleanColumnNames(df) ==
    [columns |-> [j \in DOMAIN df.columns |-> CleanLabel(df.columns[j])],
     rows |-> df.rows]

fix_headers_if_needed(df) == CleanColumnNames(PromoteHeader(df))

(***************************************************************************)
(* Text used by the script                                                 *)
(***************************************************************************)
Rep(c, n) == [i \in 1..n |-> c]

ExtCsv == <<".", "c", "s", "v">>
ExtXls == <<".", "x", "l", "s">>
ExtXlsx == <<".", "x", "l", "s", "x">>
DefaultFileName ==
    <<"c", "o", "m", "b", "i", "n", "e", "d", "_", "o", "u", "t", "p", "u", "t">> \o ExtXlsx
CombinedSheet == <<"C", "o", "m", "b", "i", "n", "e", "d", "_", "D", "a", "t", "a">>
SummarySheet == <<"F", "i", "l", "e", "_", "S", "u", "m", "m", "a", "r", "y">>
SourceFileLabel == StrV(<<"s", "o", "u", "r", "c", "e", "_", "f", "i", "l", "e">>)
RowCountLabel == StrV(<<"R", "o", "w", "_", "C", "o", "u", "n", "t">>)

SheetNameLimit == 31
PreviewRows == 50
CombinedPreviewRows == 100

NoFrame == [columns |-> <<>>, rows |-> <<>>]

(***************************************************************************)
(* Readers.  The bytes of an uploaded file are a body [fmt, tables]: the   *)
(* format the bytes really are in and the tables they hold.  A pandas      *)
(* reader returns the tables when the bytes are in its format and raises   *)
(* otherwise.                                                              *)
(***************************************************************************)
PdRead(body, fmt) ==
    IF body.fmt = fmt /\ body.tables # <<>>
    THEN [ok |-> TRUE, tables |-> body.tables]
    ELSE [ok |-> FALSE, tables |-> <<>>]

Raised(calls) == [ok |-> FALSE, df |-> NoFrame, calls |-> calls]
Returned(df, calls) == [ok |-> TRUE, df |-> df, calls |-> calls]

read_csv_safely(file) ==
    LET r == PdRead(file.body, "csv")
    IN  IF r.ok THEN Returned(r.tables[1], <<"read_csv">>) ELSE Raised(<<"read_csv">>)

\* faulty variant: the extension test is made without lower()
IsLegacyNameCaseSensitive(name) == EndsWith(name, ExtXls)

IsLegacyName(name) == EndsWith(Lower(name), ExtXls)

\* tables[0] of pd.read_html
FirstTable(tables) == tables[1]

read_excel_safely(file) ==
    IF IsLegacyName(file.name)
    THEN LET r == PdRead(file.body, "xls")
         IN  IF r.ok THEN Returned(r.tables[1], <<"xlrd">>)
             ELSE LET h == PdRead(file.body, "html")
                  IN  IF h.ok THEN Returned(FirstTable(h.tables), <<"xlrd", "read_html">>)
                      ELSE Raised(<<"xlrd", "read_html">>)
    ELSE LET r == PdRead(file.body, "xlsx")
         IN  IF r.ok THEN Returned(r.tables[1], <<"openpyxl">>) ELSE Raised(<<"openpyxl">>)

IsCsvName(name) == EndsWith(Lower(name), ExtCsv)

ReadFile(file) ==
    IF IsCsvName(file.name) THEN read_csv_safely(file) ELSE read_excel_safely(file)

(***************************************************************************)
(* The loop body: tag, store                                               *)
(***************************************************************************)
HasColumn(df, label) == \E j \in DOMAIN df.columns : df.columns[j] = label

\* df["source_file"] = name: a new last column, or the existing one overwritten
SetSourceFile(df, name) ==
    IF HasColumn(df, SourceFileLabel)
    THEN [columns |-> df.columns,
          rows |-> [r \in DOMAIN df.rows |->
                      [j \in DOMAIN df.columns |->
                          IF df.columns[j] = SourceFileLabel THEN StrV(name)
                          ELSE df.rows[r][j]]]]
    ELSE [columns |-> Append(df.columns, SourceFileLabel),
          rows |-> [r \in DOMAIN df.rows |-> Append(df.rows[r], StrV(name))]]

\* the try block up to the tagging: read, fix headers, tag
Ingest(file) ==
    LET r == ReadFile(file)
    IN  IF r.ok
        THEN Returned(SetSourceFile(fix_headers_if_needed(r.df), file.name), r.calls)
        ELSE r

\* raw_dfs[name] = df on a dict kept as its items in insertion order
DictSet(d, name, df) ==
    IF \E i \in DOMAIN d : d[i].name = name
    THEN [i \in DOMAIN d |-> IF d[i].name = name THEN [name |-> name, df |-> df] ELSE d[i]]
    ELSE Append(d, [name |-> name, df |-> df])

\* df.head(n)
HeadRows(df, n) ==
    [columns |-> df.columns,
     rows |-> SubSeq(df.rows, 1, IF Len(df.rows) < n THEN Len(df.rows) ELSE n)]

Shape(df) == [rows |-> Len(df.rows), columns |-> Len(df.columns)]

FilePreview(name, df) ==
    [name |-> name, head |-> HeadRows(df, PreviewRows), caption |-> Shape(df)]

NewRawDfs == <<>>

\* faulty variant: combined_list is kept from the run before
KeptCombinedList == combined_list

NewCombinedList == <<>>

\* faulty variant: the except clause ends the loop
AbortBatch(i) == Len(uploaded_files)

\* the loop goes on to the next file after the except clause has reported one
AfterFailure(i) == i + 1

(***************************************************************************)
(* Combine, summarise, export                                              *)
(***************************************************************************)
ColumnIndex(df, label) ==
    CHOOSE j \in DOMAIN df.columns :
        /\ df.columns[j] = label
        /\ \A i \in DOMAIN df.columns : df.columns[i] = label => j <= i

\* the columns of pd.concat: every label, in the order of first appearance
RECURSIVE UnionColumns(_, _)
UnionColumns(list, cols) ==
    IF list = <<>> THEN cols
    ELSE LET IsNew(c) == \A i \in DOMAIN cols : cols[i] # c
         IN  UnionColumns(Tail(list), cols \o SelectSeq(Head(list).columns, IsNew))

\* the rows of one frame under the combined columns, NaN where it has no such column
Reindex(df, cols) ==
    [r \in DOMAIN df.rows |->
        [j \in DOMAIN cols |->
            IF HasColumn(df, cols[j]) THEN df.rows[r][ColumnIndex(df, cols[j])] ELSE NaN]]

RECURSIVE ConcatRows(_, _)
ConcatRows(list, cols) ==
    IF list = <<>> THEN <<>>
    ELSE Reindex(Head(list), cols) \o ConcatRows(Tail(list), cols)

Reverse(list) == [i \in DOMAIN list |-> list[Len(list) + 1 - i]]

\* faulty variant: the frames are concatenated newest first
ConcatNewestFirst(list) ==
    LET cols == UnionColumns(Reverse(list), <<>>)
    IN  [columns |-> cols, rows |-> ConcatRows(Reverse(list), cols)]

\* pd.concat(list, ignore_index=True)
Concat(list) ==
    LET cols == UnionColumns(list, <<>>)
    IN  [columns |-> cols, rows |-> ConcatRows(list, cols)]

\* ord(c)
Ord(c) == CASE c = "." -> 46 [] c = "1" -> 49 [] c = "2" -> 50
            [] c = "L" -> 76 [] c = "S" -> 83 [] c = "X" -> 88 [] c = "_" -> 95
            [] c = "a" -> 97 [] c = "b" -> 98 [] c = "c" -> 99 [] c = "l" -> 108
            [] c = "r" -> 114 [] c = "s" -> 115 [] c = "v" -> 118 [] c = "x" -> 120
            [] c = "z" -> 122

\* s1 < s2 on Python strings
RECURSIVE StrLess(_, _)
StrLess(s1, s2) ==
    IF s2 = <<>> THEN FALSE
    ELSE IF s1 = <<>> THEN TRUE
    ELSE IF Head(s1) # Head(s2) THEN Ord(Head(s1)) < Ord(Head(s2))
    ELSE StrLess(Tail(s1), Tail(s2))

RECURSIVE SortedKeys(_)
SortedKeys(keys) ==
    IF keys = {} THEN <<>>
    ELSE LET least == CHOOSE k \in keys : \A o \in keys \ {k} : StrLess(k, o)
         IN  <<least>> \o SortedKeys(keys \ {least})

GroupSize(df, key) ==
    Cardinality({r \in DOMAIN df.rows :
                    df.rows[r][ColumnIndex(df, SourceFileLabel)] = StrV(key)})

\* combined_df.groupby("source_file").size().reset_index(name="Row_Count")
GroupBySize(df) ==
    LET keys == {df.rows[r][ColumnIndex(df, SourceFileLabel)].s : r \in DOMAIN df.rows}
        order == SortedKeys(keys)
    IN  [columns |-> <<SourceFileLabel, RowCountLabel>>,
         rows |-> [i \in DOMAIN order |-> <<StrV(order[i]), IntV(GroupSize(df, order[i]))>>]]

\* name[:31]
SheetName(name) ==
    SubSeq(name, 1, IF Len(name) < SheetNameLimit THEN Len(name) ELSE SheetNameLimit)

\* df.to_excel(writer, sheet_name=name): the writer writes into the sheet of that
\* name when the book already has one, and adds a sheet otherwise
WriteSheet(book, name, df) ==
    IF \E i \in DOMAIN book : book[i].name = name
    THEN [i \in DOMAIN book |-> IF book[i].name = name THEN [name |-> name, df |-> df]
                                ELSE book[i]]
    ELSE Append(book, [name |-> name, df |-> df])

RECURSIVE WriteRawSheets(_, _)
WriteRawSheets(book, items) ==
    IF items = <<>> THEN book
    ELSE WriteRawSheets(WriteSheet(book, SheetName(Head(items).name), Head(items).df),
                        Tail(items))

export_to_excel(raw, combined, summary) ==
    WriteRawSheets(
        WriteSheet(WriteSheet(<<>>, CombinedSheet, combined), SummarySheet, summary),
        raw)

\* faulty variant: the suffix test is made without lower()
DownloadNameCaseSensitive(text) ==
    IF ~EndsWith(text, ExtXlsx) THEN text \o ExtXlsx ELSE text

\* the name given to st.download_button
DownloadName(text) ==
    IF ~EndsWith(Lower(text), ExtXlsx) THEN text \o ExtXlsx ELSE text

NoDownload == [shown |-> FALSE, data |-> <<>>, file_name |-> <<>>]
NoPreview == [shown |-> FALSE, head |-> NoFrame, caption |-> Shape(NoFrame)]

(***************************************************************************)
(* Inputs: the files a user may upload and the names a user may type       *)
(***************************************************************************)
Cell(c) == StrV(<<c>>)

PlainTable ==
    [columns |-> <<Cell("x"), Cell("y")>>,
     rows |-> <<<<Cell("p"), IntV(1)>>, <<Cell("p"), IntV(1)>>>>]
EmptyTable == [columns |-> <<Cell("x")>>, rows |-> <<>>]
HeaderlessTable ==
    [columns |-> <<IntV(0), IntV(1)>>,
     rows |-> <<<<NaN, NaN>>,
                <<StrV(<<" ", "x">>), StrV(<<"z", "\n">>)>>,
                <<Cell("q"), NaN>>>>]
OtherTable == [columns |-> <<Cell("w")>>, rows |-> <<<<IntV(5)>>>>]
TaggedTable ==
    [columns |-> <<SourceFileLabel, Cell("y")>>,
     rows |-> <<<<Cell("z"), IntV(2)>>>>]

LongPrefix == Rep("r", SheetNameLimit)
NameCsv == <<"a">> \o ExtCsv
NameXls == <<"b", ".", "X", "L", "S">>
NameLong1 == LongPrefix \o <<"1">> \o ExtXlsx
NameLong2 == LongPrefix \o <<"2">> \o ExtXlsx

Junk == [fmt |-> "junk", tables |-> <<>>]

UploadPool ==
    { [name |-> NameCsv, body |-> [fmt |-> "csv", tables |-> <<PlainTable>>]],
      [name |-> NameCsv, body |-> [fmt |-> "csv", tables |-> <<EmptyTable>>]],
      [name |-> NameXls, body |-> [fmt |-> "xls", tables |-> <<HeaderlessTable>>]],
      [name |-> NameXls, body |-> [fmt |-> "html", tables |-> <<HeaderlessTable, OtherTable>>]],
      [name |-> NameXls, body |-> Junk],
      [name |-> NameLong1, body |-> [fmt |-> "xlsx", tables |-> <<PlainTable>>]],
      [name |-> NameLong2, body |-> [fmt |-> "xlsx", tables |-> <<TaggedTable>>]],
      [name |-> NameLong1, body |-> Junk] }

TypedNames == { DefaultFileName, <<>>, <<"o", "u", "t", ".", "X", "L", "S", "X">> }

HdrCells == { NaN, Cell("h"), StrV(<<" ", "a", "\n", "b", "\n">>), IntV(10) }
HdrLabels ==
    { <<IntV(0), IntV(1)>>,
      <<IntV(0), Cell("a")>>,
      <<StrV(<<"x", "\n", "y">>), StrV(<<" ", "z">>)>> }
HdrPool ==
    { [columns |-> c, rows |-> r] :
        c \in HdrLabels,
        r \in UNION { [1..m -> [1..2 -> HdrCells]] : m \in 0..MaxRows } }

(***************************************************************************)
(* The script run                                                          *)
(***************************************************************************)
AppInit ==
    /\ uploaded_files = <<>>
    /\ text_value = DefaultFileName
    /\ pc = "done"
    /\ idx = 0
    /\ raw_dfs = <<>>
    /\ combined_list = <<>>
    /\ attempts = <<>>
    /\ errors = <<>>
    /\ combined_df = NoFrame
    /\ summary_df = NoFrame
    /\ download = NoDownload
    /\ info = TRUE
    /\ previews = <<>>
    /\ combined_preview = NoPreview
    /\ removed = FALSE

\* A user action makes Streamlit rerun the script from its top: the page is
\* cleared, no name is bound, and the script runs to the for loop, or to the
\* notice when no file is uploaded.
BeginRun(files, text, rem) ==
    /\ uploaded_files' = files
    /\ text_value' = text
    /\ removed' = rem
    /\ idx' = 0
    /\ attempts' = <<>>
    /\ errors' = <<>>
    /\ previews' = <<>>
    /\ combined_preview' = NoPreview
    /\ download' = NoDownload
    /\ combined_df' = NoFrame
    /\ summary_df' = NoFrame
    /\ IF files # <<>>
       THEN /\ raw_dfs' = NewRawDfs
            /\ combined_list' = NewCombinedList
            /\ info' = FALSE
            /\ pc' = "loop"
       ELSE /\ raw_dfs' = <<>>
            /\ combined_list' = <<>>
            /\ info' = TRUE
            /\ pc' = "done"
    /\ UNCHANGED hdrVars

Upload(f) ==
    /\ Len(uploaded_files) < MaxFiles
    /\ BeginRun(Append(uploaded_files, f), text_value, FALSE)

Remove(k) ==
    /\ k \in DOMAIN uploaded_files
    /\ BeginRun(SubSeq(uploaded_files, 1, k - 1)
                    \o SubSeq(uploaded_files, k + 1, Len(uploaded_files)),
                text_value, TRUE)

\* the text_input is on the page only once the run has reached the Save As part
EditName(s) ==
    /\ pc = "done"
    /\ download.shown
    /\ s # text_value
    /\ BeginRun(uploaded_files, s, removed)

ClickDownload ==
    /\ pc = "done"
    /\ download.shown
    /\ BeginRun(uploaded_files, text_value, removed)

\* one iteration of the for loop
ProcessFile ==
    /\ pc = "loop"
    /\ idx < Len(uploaded_files)
    /\ LET file == uploaded_files[idx + 1]
           r == Ingest(file)
       IN  /\ attempts' = Append(attempts, r.calls)
           /\ IF r.ok
              THEN /\ raw_dfs' = DictSet(raw_dfs, file.name, r.df)
                   /\ combined_list' = Append(combined_list, r.df)
                   /\ previews' = Append(previews, FilePreview(file.name, r.df))
                   /\ idx' = idx + 1
                   /\ UNCHANGED errors
              ELSE /\ errors' = Append(errors, file.name)
                   /\ idx' = AfterFailure(idx)
                   /\ UNCHANGED <<raw_dfs, combined_list, previews>>
    /\ UNCHANGED <<uploaded_files, text_value, pc, combined_df, summary_df, download,
                   info, combined_preview, removed>>
    /\ UNCHANGED hdrVars

\* after the loop: combine, summarise, export, offer the download
CombineExport ==
    /\ pc = "loop"
    /\ idx >= Len(uploaded_files)
    /\ pc' = "done"
    /\ IF combined_list # <<>>
       THEN LET combined == Concat(combined_list)
                summary == GroupBySize(combined)
            IN  /\ combined_df' = combined
                /\ summary_df' = summary
                /\ combined_preview' =
                       [shown |-> TRUE, head |-> HeadRows(combined, CombinedPreviewRows),
                        caption |-> Shape(combined)]
                /\ download' =
                       [shown |-> TRUE,
                        data |-> export_to_excel(raw_dfs, combined, summary),
                        file_name |-> DownloadName(text_value)]
       ELSE UNCHANGED <<combined_df, summary_df, combined_preview, download>>
    /\ UNCHANGED <<uploaded_files, text_value, idx, raw_dfs, combined_list, attempts,
                   errors, info, previews, removed>>
    /\ UNCHANGED hdrVars

HdrIdle ==
    /\ h_pc = "idle"
    /\ h_in = NoFrame
    /\ h_out = NoFrame
    /\ h_again = NoFrame

Init == AppInit /\ HdrIdle

Next ==
    \/ \E f \in UploadPool : Upload(f)
    \/ \E k \in 1..MaxFiles : Remove(k)
    \/ \E s \in TypedNames : EditName(s)
    \/ ClickDownload
    \/ ProcessFile
    \/ CombineExport

Spec == Init /\ [][Next]_vars

(***************************************************************************)
(* fix_headers_if_needed on its own                                        *)
(***************************************************************************)
HdrInit ==
    /\ AppInit
    /\ h_pc = "input"
    /\ h_in \in HdrPool
    /\ h_out = NoFrame
    /\ h_again = NoFrame

ApplyFix ==
    /\ h_pc = "input"
    /\ h_out' = fix_headers_if_needed(h_in)
    /\ h_pc' = "fixed"
    /\ UNCHANGED <<h_in, h_again>>
    /\ UNCHANGED appVars

ApplyFixAgain ==
    /\ h_pc = "fixed"
    /\ h_again' = fix_headers_if_needed(h_out)
    /\ h_pc' = "again"
    /\ UNCHANGED <<h_in, h_out>>
    /\ UNCHANGED appVars

HdrNext == ApplyFix \/ ApplyFixAgain

HdrSpec == HdrInit /\ [][HdrNext]_vars

(***************************************************************************)
(* Properties of fix_headers_if_needed (HdrSpec)                           *)
(***************************************************************************)
IntLabelled(df) == \A j \in DOMAIN df.columns : df.columns[j].t = "int"

EmptyRow(row) == \A j \in DOMAIN row : row[j].t = "na"

\* row k (counted from 0) is the first row with a non-empty cell
FirstDataRow(df, k) ==
    /\ k \in 0..(Len(df.rows) - 1)
    /\ ~EmptyRow(df.rows[k + 1])
    /\ \A i \in 1..k : EmptyRow(df.rows[i])

\* text that normalisation leaves as it is
TidyText(s) ==
    /\ \A i \in DOMAIN s : s[i] # "\n"
    /\ s # <<>> => ~IsSpace(s[1]) /\ ~IsSpace(s[Len(s)])

NoDataRow(df) == \A r \in DOMAIN df.rows : EmptyRow(df.rows[r])

\* C5 as stated: with all-integer labels and no row with a non-empty cell the
\* dataset comes out with columns and rows unchanged, the integer labels persisting.
C5_ColumnsUnchanged ==
    (h_pc # "input" /\ IntLabelled(h_in) /\ NoDataRow(h_in)) => h_out = h_in

\* C5 as amended: with all-integer labels and no row with a non-empty cell no row is
\* dropped and no row is promoted, and each label is the decimal text of the
\* original integer label (a str, no longer an int).
C5_LabelsBecomeText ==
    (h_pc # "input" /\ IntLabelled(h_in) /\ NoDataRow(h_in)) =>
        /\ h_out.rows = h_in.rows
        /\ DOMAIN h_out.columns = DOMAIN h_in.columns
        /\ \A j \in DOMAIN h_in.columns :
              /\ h_out.columns[j].t = "str"
              /\ h_out.columns[j].s = NatStr(h_in.columns[j].n)

C5_Witness ==
    /\ h_pc = "fixed"
    /\ IntLabelled(h_in)
    /\ Len(h_in.rows) = 2
    /\ NoDataRow(h_in)
    /\ h_out.rows = h_in.rows
    /\ h_out.columns = <<Cell("0"), Cell("1")>>

\* C6: whichever branch is taken, every label returned is a str without leading or
\* trailing whitespace and without a newline, namely str(label), stripped, with
\* each newline replaced by a space; a second application changes nothing.
C6_LabelNormalisation ==
    /\ h_pc # "input" =>
          /\ DOMAIN h_out.columns = DOMAIN PromoteHeader(h_in).columns
          /\ \A j \in DOMAIN h_out.columns :
                /\ h_out.columns[j].t = "str"
                /\ TidyText(h_out.columns[j].s)
                /\ h_out.columns[j].s =
                       ReplaceNewline(Strip(StrOf(PromoteHeader(h_in).columns[j])))
    /\ h_pc = "again" => h_again = h_out

\* labels with a newline inside and with whitespace around come out normalised,
\* and a second application has been made
C6_Witness ==
    /\ h_pc = "again"
    /\ h_in.columns = <<StrV(<<"x", "\n", "y">>), StrV(<<" ", "z">>)>>
    /\ h_out.columns = <<StrV(<<"x", " ", "y">>), Cell("z")>>
    /\ Len(h_in.rows) = 2
    /\ h_again = h_out

(***************************************************************************)
(* Properties of the script run (Spec)                                     *)
(***************************************************************************)
\* the outcome of reading each file of a list
RECURSIVE Reads(_)
Reads(files) ==
    IF files = <<>> THEN <<>> ELSE <<ReadFile(Head(files))>> \o Reads(Tail(files))

\* the elements of a sequence at the positions in S, from position i on, in order
RECURSIVE Keep(_, _, _)
Keep(seq, S, i) ==
    IF i > Len(seq) THEN <<>>
    ELSE (IF i \in S THEN <<seq[i]>> ELSE <<>>) \o Keep(seq, S, i + 1)

\* each frame after header repair
RECURSIVE Repaired(_)
Repaired(frames) ==
    IF frames = <<>> THEN <<>>
    ELSE <<fix_headers_if_needed(Head(frames))>> \o Repaired(Tail(frames))

\* each repaired frame tagged with its file's name
RECURSIVE Tagged(_, _)
Tagged(frames, files) ==
    IF frames = <<>> THEN <<>>
    ELSE <<SetSourceFile(Head(frames), Head(files).name)>>
             \o Tagged(Tail(frames), Tail(files))

\* What a list of files is expected to give: the files that parse (good) and the
\* names of those that do not (failed), in order; for the files that parse, the
\* datasets after header repair (norm) and as the loop stores them (stored).
Expect(files) ==
    LET reads == Reads(files)
        ok == {i \in DOMAIN reads : reads[i].ok}
        good == Keep(files, ok, 1)
        bad == Keep(files, DOMAIN reads \ ok, 1)
        norm == Repaired(Keep([i \in DOMAIN reads |-> reads[i].df], ok, 1))
    IN  [good |-> good,
         failed |-> [i \in DOMAIN bad |-> bad[i].name],
         norm |-> norm,
         stored |-> Tagged(norm, good)]

RECURSIVE RowTotal(_)
RowTotal(frames) ==
    IF frames = <<>> THEN 0 ELSE Len(Head(frames).rows) + RowTotal(Tail(frames))

\* C1 as stated: when every file of the batch parses, the Combined Dataset has
\* sum(ri) rows and the Summary has exactly N entries, one (name, ri) per file.
C1_SummaryPerFile ==
    LET e == Expect(uploaded_files)
    IN  (pc = "done" /\ uploaded_files # <<>> /\ e.failed = <<>>) =>
            /\ download.shown
            /\ Len(combined_df.rows) = RowTotal(e.norm)
            /\ Len(summary_df.rows) = Len(uploaded_files)
            /\ \A i \in DOMAIN uploaded_files :
                  \E r \in DOMAIN summary_df.rows :
                      summary_df.rows[r] =
                          <<StrV(uploaded_files[i].name), IntV(Len(e.norm[i].rows))>>

\* C2 as stated: the exported book holds exactly N+2 sheets for the N datasets
\* handed to export_to_excel: Combined_Data, File_Summary and one per dataset,
\* named by the first 31 characters of its file name.
C2_SheetCount ==
    download.shown =>
        /\ Len(download.data) = Len(raw_dfs) + 2
        /\ download.data[1].name = CombinedSheet
        /\ download.data[2].name = SummarySheet
        /\ \A i \in DOMAIN raw_dfs :
              \E k \in DOMAIN download.data :
                  /\ download.data[k].name = SheetName(raw_dfs[i].name)
                  /\ download.data[k].df = raw_dfs[i].df

\* the position of the last file of the given name in a list
LastNamed(files, name) ==
    LET hits == {i \in DOMAIN files : files[i].name = name}
    IN  CHOOSE i \in hits : \A o \in hits : o <= i

\* C3: whichever file of the batch fails, an error naming it is reported, it adds
\* nothing to raw_dfs or combined_list, and every other file is still processed: the
\* stored datasets are exactly those of the files that parsed, in upload order.
C3_FailureIsolation ==
    pc \in {"loop", "done"} =>
        LET e == Expect(SubSeq(uploaded_files, 1, idx))
        IN  /\ idx \in 0..Len(uploaded_files)
            /\ pc = "done" => idx = Len(uploaded_files)
            /\ errors = e.failed
            /\ combined_list = e.stored
            /\ {raw_dfs[i].name : i \in DOMAIN raw_dfs} =
                   {e.good[i].name : i \in DOMAIN e.good}
            /\ \A i, j \in DOMAIN raw_dfs : raw_dfs[i].name = raw_dfs[j].name => i = j
            /\ \A i \in DOMAIN raw_dfs :
                   raw_dfs[i].df = e.stored[LastNamed(e.good, raw_dfs[i].name)]

\* a failing file between two files that parse: both are stored, in order
C3_Witness ==
    /\ pc = "done"
    /\ Len(uploaded_files) = 3
    /\ ReadFile(uploaded_files[1]).ok
    /\ ~ReadFile(uploaded_files[2]).ok
    /\ ReadFile(uploaded_files[3]).ok
    /\ uploaded_files[1].name # uploaded_files[3].name
    /\ errors = <<uploaded_files[2].name>>
    /\ Len(combined_list) = 2
    /\ Len(raw_dfs) = 2
    /\ download.shown

\* C7 as stated: the name given to the download button always ends in .xlsx
C7_AlwaysXlsxSuffix ==
    download.shown => EndsWith(download.file_name, ExtXlsx)

\* C7 as amended: the name given to the download button ends in .xlsx when compared
\* without regard to case; .xlsx is appended exactly when the typed name, lower-cased,
\* does not end in .xlsx, and a name that does is passed unchanged, in the case typed.
C7_SuffixIgnoringCase ==
    download.shown =>
        /\ EndsWith(Lower(download.file_name), ExtXlsx)
        /\ EndsWith(Lower(text_value), ExtXlsx) => download.file_name = text_value
        /\ ~EndsWith(Lower(text_value), ExtXlsx) =>
               download.file_name = text_value \o ExtXlsx
        /\ text_value = DefaultFileName => download.file_name = DefaultFileName

\* a typed name that ends in .XLSX is offered as typed
C7_Witness ==
    /\ download.shown
    /\ text_value = <<"o", "u", "t", ".", "X", "L", "S", "X">>
    /\ download.file_name = text_value

\* the format a reader call reads
ReaderFormat(call) ==
    CASE call = "read_csv" -> "csv" [] call = "xlrd" -> "xls"
      [] call = "read_html" -> "html" [] call = "openpyxl" -> "xlsx"

\* the last reader call made for the j-th file returned a table
LastCallReturned(j) ==
    ReaderFormat(attempts[j][Len(attempts[j])]) = uploaded_files[j].body.fmt

\* C8: a name ending in .csv (lower-cased) is read by the CSV reader alone; one ending
\* in .xls by the legacy reader, and by HTML-table extraction only after the legacy
\* reader failed, the first table being taken; any other name by the modern reader
\* alone; a file is reported as failed exactly when its last attempt failed.
C8_ReaderOrder ==
    pc \in {"loop", "done"} =>
        /\ Len(attempts) = idx
        /\ \A j \in 1..idx :
              LET f == uploaded_files[j]
                  low == Lower(f.name)
                  a == attempts[j]
              IN  /\ EndsWith(low, ExtCsv) => a = <<"read_csv">>
                  /\ (~EndsWith(low, ExtCsv) /\ EndsWith(low, ExtXls)) =>
                        /\ f.body.fmt = "xls" => a = <<"xlrd">>
                        /\ f.body.fmt # "xls" => a = <<"xlrd", "read_html">>
                  /\ (~EndsWith(low, ExtCsv) /\ ~EndsWith(low, ExtXls)) =>
                        a = <<"openpyxl">>
                  /\ (a = <<"xlrd", "read_html">> /\ LastCallReturned(j)) =>
                        combined_list[Cardinality({i \in 1..j : LastCallReturned(i)})] =
                            SetSourceFile(fix_headers_if_needed(f.body.tables[1]), f.name)
        /\ LET Bad(j) == ~LastCallReturned(j)
               bad == SelectSeq([j \in 1..idx |-> j], Bad)
           IN  errors = [i \in DOMAIN bad |-> uploaded_files[bad[i]].name]

\* an .XLS file that is HTML is read by the fallback, one that is neither is
\* reported after both attempts, and an .xlsx file that fails is tried once
C8_Witness ==
    /\ pc = "done"
    /\ Len(uploaded_files) = 3
    /\ uploaded_files[1].body.fmt = "html"
    /\ attempts = <<<<"xlrd", "read_html">>, <<"xlrd", "read_html">>, <<"openpyxl">>>>
    /\ errors = <<NameXls, NameLong1>>
    /\ Len(combined_list) = 1
    /\ Len(combined_list[1].rows) = 1

\* the number of Combined rows that come before those of the i-th of the frames
Offset(frames, i) == RowTotal(SubSeq(frames, 1, i - 1))

\* C9: the Combined Dataset is the datasets of the files that parsed, one after the
\* other in upload order, each file's rows together and in their own order; no row
\* is dropped, merged or moved, and each carries its file's name in source_file.
C9_ConcatInUploadOrder ==
    download.shown =>
        LET e == Expect(uploaded_files)
            good == e.good
            norm == e.norm
            sf == ColumnIndex(combined_df, SourceFileLabel)
        IN  /\ Len(combined_df.rows) = RowTotal(norm)
            /\ \A i \in DOMAIN good :
                  LET src == norm[i]
                  IN  /\ \A j \in DOMAIN src.columns :
                            \E c \in DOMAIN combined_df.columns :
                                combined_df.columns[c] = src.columns[j]
                      /\ \A r \in DOMAIN src.rows :
                            LET row == combined_df.rows[Offset(norm, i) + r]
                            IN  /\ row[sf] = StrV(good[i].name)
                                /\ \A c \in DOMAIN combined_df.columns \ {sf} :
                                      IF \E j \in DOMAIN src.columns :
                                             src.columns[j] = combined_df.columns[c]
                                      THEN \A j \in DOMAIN src.columns :
                                             src.columns[j] = combined_df.columns[c] =>
                                                 row[c] = src.rows[r][j]
                                      ELSE row[c] = NaN

\* two equal rows of the first file, then the row of the second file
C9_Witness ==
    /\ download.shown
    /\ Len(uploaded_files) = 2
    /\ uploaded_files[1].body.tables = <<PlainTable>>
    /\ uploaded_files[2].body.tables = <<HeaderlessTable>>
    /\ Len(combined_df.rows) = 3
    /\ combined_df.columns = <<Cell("x"), Cell("y"), SourceFileLabel, Cell("z")>>
    /\ combined_df.rows[1] = combined_df.rows[2]
    /\ combined_df.rows[3] = <<Cell("q"), NaN, StrV(NameXls), NaN>>

UploadedNames == {uploaded_files[i].name : i \in DOMAIN uploaded_files}

\* C10: at the end of every run the stored datasets, the Combined Dataset, the
\* Summary and the export are those of the files uploaded now and of nothing else;
\* with no file uploaded nothing is combined or offered for download.
C10_RebuiltFromCurrentFiles ==
    pc = "done" =>
        LET e == Expect(uploaded_files)
        IN
        IF uploaded_files = <<>>
        THEN /\ ~download.shown
             /\ ~combined_preview.shown
             /\ previews = <<>>
             /\ errors = <<>>
             /\ info
        ELSE /\ ~info
             /\ combined_list = e.stored
             /\ \A i \in DOMAIN raw_dfs : raw_dfs[i].name \in UploadedNames
             /\ Len(previews) = Len(e.good)
             /\ download.shown <=> e.good # <<>>
             /\ combined_preview.shown <=> download.shown
             /\ download.shown =>
                   /\ combined_df = Concat(combined_list)
                   /\ summary_df = GroupBySize(combined_df)
                   /\ download.data = export_to_excel(raw_dfs, combined_df, summary_df)
                   /\ \A r \in DOMAIN combined_df.rows :
                         combined_df.rows[r][ColumnIndex(combined_df, SourceFileLabel)].s
                             \in UploadedNames
                   /\ \A r \in DOMAIN summary_df.rows :
                         summary_df.rows[r][1].s \in UploadedNames
                   /\ \A k \in 3..Len(download.data) :
                         \E n \in UploadedNames : download.data[k].name = SheetName(n)

\* a run that ended after a file was removed and that offers a download;
\* the file removed was the only one of the name a.csv
C10_Witness ==
    /\ pc = "done"
    /\ removed
    /\ download.shown
    /\ NameCsv \notin UploadedNames
    /\ Len(uploaded_files) = 2
    /\ text_value = <<>>

====
